---------------------------- MODULE Spec2Model ----------------------------
(***************************************************************************)
(* patternlab2domain: the hierarchical template resolver.                  *)
(*                                                                         *)
(* lib/conductor.js (Conductor), lib/parser.js (Parser) and lib/builder.js *)
(* (CrNode, NodeStorage) as one state machine over the node.js event loop: *)
(* every action is one callback (an fs completion or a promise reaction),  *)
(* run to completion, with every call it makes.                            *)
(*                                                                         *)
(* Strings.  A JavaScript string is a sequence of path segments, and a     *)
(* segment records the parts the code looks at: its leading marker `pre`   *)
(* (".", a tier prefix "atoms-", a comment tag "cr:import", or ""), whether *)
(* a numeric ordering prefix "NN-" follows (`num`), the text `stem`, and    *)
(* whether the configured file ending closes it (`end`).                    *)
(***************************************************************************)
EXTENDS Naturals, Sequences, FiniteSets, TLC

VARIABLES
    scn,              \* the name of the file tree and options this run works on
    started,          \* Conductor.prototype.start has been called
    atoms,            \* Conductor.atoms: id -> path
    molecules,        \* Conductor.molecules
    organisms,        \* Conductor.organisms
    storage,          \* Conductor.handler.storage: id -> CrNode
    parserPromises,   \* Conductor.parserPromises, each with its deferred's state
    parserPromisesTs, \* Conductor.parserPromisesTs
    waits,            \* the Q.allSettled(Q.all(..)) chains waitForFinish has set up
    inits,            \* the three promises of recursiveBuildStructureMapping
    startFired,       \* the reaction to Q.allSettled(Q.all(inits)) has run
    io,               \* fs requests in flight
    emitted,          \* events the conductor has emitted, in order
    crashed,          \* an exception left a callback uncaught
    readErrs,         \* readFile calls the file system has failed so far
    scanErrs,         \* readdir/stat calls the file system has failed so far
    settled,          \* the parser promises in the order they were settled
    parserEvents,     \* the events each parser has emitted, in order
    policy            \* the field policy of the builder in use: lenient or strict

vars == <<scn, started, atoms, molecules, organisms, storage, parserPromises,
          parserPromisesTs, waits, inits, startFired, io, emitted, crashed,
          readErrs, scanErrs, settled, parserEvents, policy>>

-----------------------------------------------------------------------------
(* Bounds of the model *)

\* how many readFile calls the file system may fail in one run
MaxReadErrs == 2

\* how many readdir/stat calls the file system may fail in one run
MaxScanErrs == 1

\* how many fields, and how many relations, a caller of the store attaches
\* to one node
MaxStoreLen == 2

-----------------------------------------------------------------------------
(* Strings *)

Seg(pre, num, stem, end) == [pre |-> pre, num |-> num, stem |-> stem, end |-> end]

\* a plain word
Str(w) == <<Seg("", FALSE, w, FALSE)>>

\* "atoms-x", "molecules-x", "organisms-x"
TierId(tier, w) == <<Seg(tier \o "-", FALSE, w, FALSE)>>

\* "01-x.mustache"
TplName(w) == Seg("", TRUE, w, TRUE)

\* "x.mustache"
PlainTpl(w) == Seg("", FALSE, w, TRUE)

\* the empty string
Empty == <<>>

\* JavaScript's null, as a value of the string type
Null == <<Seg("null", FALSE, "", FALSE)>>

\* path.join(base, filename)
Join(base, filename) == Append(base, filename)

\* s.substr(0, prefix.length) === prefix
StartsWith(s, prefix) == Len(s) > 0 /\ s[1].pre = prefix

Tiers == {"atoms", "molecules", "organisms"}

\* path.join(patternDir, '00-atoms') and its siblings; patternDir is the root
TierDir(tier) == <<Seg("", TRUE, tier, FALSE)>>

-----------------------------------------------------------------------------
(* Tokens of Mustache.parse: [type, value] *)

Tok(t, v) == [t |-> t, v |-> v]

Partial(id)   == Tok(">", id)
Section(w)    == Tok("#", Str(w))
Variable(w)   == Tok("name", Str(w))
Text          == Tok("text", Empty)
Comment(v)    == Tok("!", v)
CrImport(w)   == Comment(<<Seg("cr:import", FALSE, w, FALSE)>>)

\* {{! cr:node <JSON> }}
CrNodeComment(w) == Comment(<<Seg("cr:node", FALSE, w, FALSE)>>)

\* a tag or section the template never closes; no token list contains it,
\* Mustache.parse throws when it meets one
Unclosed      == Tok("unclosed", Empty)

-----------------------------------------------------------------------------
(* The file trees the runs work on.  dirs: directory -> its entries in the  *)
(* order readdir lists them; files: template -> its top-level token list.   *)

World(startDir, startFile, dirs, files) ==
    [startDir |-> startDir, startFile |-> startFile, dirs |-> dirs, files |-> files]

AtomFile(w)     == Join(TierDir("atoms"), TplName(w))
MoleculeFile(w) == Join(TierDir("molecules"), TplName(w))
OrganismFile(w) == Join(TierDir("organisms"), TplName(w))

Page     == Str("page")
PagesDir == Str("pages")

\* page -> organisms-o -> molecules-m -> atoms-a
Chain ==
    World(Empty, Page,
          (TierDir("atoms") :> <<TplName("a")>>)
       @@ (TierDir("molecules") :> <<TplName("m")>>)
       @@ (TierDir("organisms") :> <<TplName("o")>>),
          (Page :> <<Text, Section("items"), Partial(TierId("organisms", "o"))>>)
       @@ (OrganismFile("o") :> <<Partial(TierId("molecules", "m")), Section("rows")>>)
       @@ (MoleculeFile("m") :> <<Section("cells"), Partial(TierId("atoms", "a"))>>)
       @@ (AtomFile("a") :> <<Variable("label"), Section("list")>>))

\* page -> molecules-b, molecules-c; both -> atoms-d
Diamond ==
    World(Empty, Page,
          (TierDir("atoms") :> <<TplName("d")>>)
       @@ (TierDir("molecules") :> <<TplName("b"), TplName("c")>>)
       @@ (TierDir("organisms") :> <<>>),
          (Page :> <<Partial(TierId("molecules", "b")), Partial(TierId("molecules", "c"))>>)
       @@ (MoleculeFile("b") :> <<Section("left"), Partial(TierId("atoms", "d"))>>)
       @@ (MoleculeFile("c") :> <<Partial(TierId("atoms", "d")), Section("right")>>)
       @@ (AtomFile("d") :> <<Section("title")>>))

\* page includes atoms-h twice, the second time under the name footerHeader
Twice ==
    World(Empty, Page,
          (TierDir("atoms") :> <<TplName("h")>>)
       @@ (TierDir("molecules") :> <<>>)
       @@ (TierDir("organisms") :> <<>>),
          (Page :> <<Partial(TierId("atoms", "h")), Text, CrImport("footerHeader"),
                     Partial(TierId("atoms", "h"))>>)
       @@ (AtomFile("h") :> <<Variable("title"), Section("links")>>))

\* page -> organisms-o -> molecules-m -> organisms-o, molecules-m
Cycle ==
    World(Empty, Page,
          (TierDir("atoms") :> <<>>)
       @@ (TierDir("molecules") :> <<TplName("m")>>)
       @@ (TierDir("organisms") :> <<TplName("o")>>),
          (Page :> <<Partial(TierId("organisms", "o"))>>)
       @@ (OrganismFile("o") :> <<Section("rows"), Partial(TierId("molecules", "m"))>>)
       @@ (MoleculeFile("m") :> <<Partial(TierId("organisms", "o")),
                                  Partial(TierId("molecules", "m"))>>))

\* a start directory (and a start file beside it) with two templates
StartDir ==
    World(PagesDir, Page,
          (TierDir("atoms") :> <<TplName("a")>>)
       @@ (TierDir("molecules") :> <<>>)
       @@ (TierDir("organisms") :> <<>>)
       @@ (PagesDir :> <<PlainTpl("p1"), Seg("", FALSE, "readme", FALSE), PlainTpl("p2")>>),
          (Page :> <<Section("unused")>>)
       @@ (Join(PagesDir, PlainTpl("p1")) :> <<Partial(TierId("atoms", "a"))>>)
       @@ (Join(PagesDir, PlainTpl("p2")) :> <<Section("news"), Partial(TierId("atoms", "a"))>>)
       @@ (AtomFile("a") :> <<Section("list")>>))

\* page includes atoms-x, which no file of the tier maps to, then atoms-a
Unmapped ==
    World(Empty, Page,
          (TierDir("atoms") :> <<TplName("a")>>)
       @@ (TierDir("molecules") :> <<>>)
       @@ (TierDir("organisms") :> <<>>),
          (Page :> <<Partial(TierId("atoms", "x")), Section("later"),
                     Partial(TierId("atoms", "a"))>>)
       @@ (AtomFile("a") :> <<Section("list")>>))

\* neither startDir nor startFile
NoStart ==
    World(Empty, Empty,
          (TierDir("atoms") :> <<TplName("a")>>)
       @@ (TierDir("molecules") :> <<>>)
       @@ (TierDir("organisms") :> <<>>),
          (AtomFile("a") :> <<Section("list")>>))

\* the atoms tier holds a dot-file, a file of another kind and a sub-directory
GlobalDir == Join(TierDir("atoms"), Seg("", TRUE, "global", FALSE))

SubDir ==
    World(Empty, Page,
          (TierDir("atoms") :> <<Seg(".", FALSE, "git", FALSE), Seg("", FALSE, "notes", FALSE),
                                 Seg("", TRUE, "global", FALSE)>>)
       @@ (GlobalDir :> <<TplName("a")>>)
       @@ (TierDir("molecules") :> <<>>)
       @@ (TierDir("organisms") :> <<>>),
          (Page :> <<Partial(TierId("atoms", "a")), Section("items")>>)
       @@ (Join(TierDir("atoms"), Seg("", FALSE, "notes", FALSE)) :> <<Text>>)
       @@ (Join(GlobalDir, TplName("a")) :> <<Section("list")>>))

\* a start directory without any template
EmptyStartDir ==
    World(PagesDir, Empty,
          (TierDir("atoms") :> <<>>)
       @@ (TierDir("molecules") :> <<>>)
       @@ (TierDir("organisms") :> <<>>)
       @@ (PagesDir :> <<Seg("", FALSE, "readme", FALSE)>>),
          (Join(PagesDir, Seg("", FALSE, "readme", FALSE)) :> <<Text>>))

\* the start file opens a section and never closes it
Malformed ==
    World(Empty, Page,
          (TierDir("atoms") :> <<>>)
       @@ (TierDir("molecules") :> <<>>)
       @@ (TierDir("organisms") :> <<>>),
          (Page :> <<Section("items"), Unclosed>>))

\* the start file names includes, repeats them, and puts comments in front
\* of a loop, of a variable and of an include
Annotated ==
    World(Empty, Page,
          (TierDir("atoms") :> <<TplName("a")>>)
       @@ (TierDir("molecules") :> <<>>)
       @@ (TierDir("organisms") :> <<>>),
          (Page :> <<CrImport("header"), Partial(TierId("atoms", "a")),
                     Partial(TierId("atoms", "a")),
                     CrImport("first"), Text, CrImport("footer"), Comment(Str("note")),
                     Partial(TierId("atoms", "a")),
                     CrImport("rows"), Section("items"), Partial(TierId("atoms", "a")),
                     CrImport("heading"), Variable("title"),
                     CrNodeComment("isOwnElement"), Partial(TierId("atoms", "a"))>>)
       @@ (AtomFile("a") :> <<Variable("title")>>))

\* two files of the atoms tier, in two sub-directories, map to atoms-a
OtherDir == Join(TierDir("atoms"), Seg("", TRUE, "other", FALSE))

Duplicate ==
    World(Empty, Page,
          (TierDir("atoms") :> <<Seg("", TRUE, "global", FALSE), Seg("", TRUE, "other", FALSE)>>)
       @@ (GlobalDir :> <<TplName("a")>>)
       @@ (OtherDir :> <<TplName("a")>>)
       @@ (TierDir("molecules") :> <<>>)
       @@ (TierDir("organisms") :> <<>>),
          (Page :> <<Partial(TierId("atoms", "a"))>>)
       @@ (Join(GlobalDir, TplName("a")) :> <<Section("list")>>)
       @@ (Join(OtherDir, TplName("a")) :> <<Section("table")>>))

\* the start file holds two loops over the same name
Repeated ==
    World(Empty, Page,
          (TierDir("atoms") :> <<TplName("a")>>)
       @@ (TierDir("molecules") :> <<>>)
       @@ (TierDir("organisms") :> <<>>),
          (Page :> <<Section("items"), Text, Section("items"),
                     Partial(TierId("atoms", "a"))>>)
       @@ (AtomFile("a") :> <<Section("list")>>))

\* the start file puts text, a variable and a plain comment between an
\* annotation comment and the include
Interleaved ==
    World(Empty, Page,
          (TierDir("atoms") :> <<TplName("a")>>)
       @@ (TierDir("molecules") :> <<>>)
       @@ (TierDir("organisms") :> <<>>),
          (Page :> <<CrImport("aside"), Text, Variable("title"), Comment(Str("note")),
                     Text, Partial(TierId("atoms", "a")),
                     Partial(TierId("atoms", "a"))>>)
       @@ (AtomFile("a") :> <<Text>>))

Scenarios == {"Chain", "Diamond", "Twice", "Cycle", "StartDir", "Unmapped", "NoStart",
              "SubDir", "EmptyStartDir", "Malformed", "Annotated", "Duplicate",
              "Repeated", "Interleaved"}

WorldOf(name) ==
    CASE name = "Chain"         -> Chain
      [] name = "Diamond"       -> Diamond
      [] name = "Twice"         -> Twice
      [] name = "Cycle"         -> Cycle
      [] name = "StartDir"      -> StartDir
      [] name = "Unmapped"      -> Unmapped
      [] name = "NoStart"       -> NoStart
      [] name = "SubDir"        -> SubDir
      [] name = "EmptyStartDir" -> EmptyStartDir
      [] name = "Malformed"     -> Malformed
      [] name = "Annotated"     -> Annotated
      [] name = "Duplicate"     -> Duplicate
      [] name = "Repeated"      -> Repeated
      [] name = "Interleaved"   -> Interleaved

\* the file tree and the options of this run
world == WorldOf(scn)

-----------------------------------------------------------------------------
(* lib/builder.js *)

\* new CrNode(id); info is null
CrNode(id) ==
    [id |-> id, fields |-> <<>>, relations |-> <<>>,
     info |-> [type |-> "null", options |-> [name |-> Empty]]]

\* NodeStorage.prototype.hasNode
hasNode(st, id) == id \in DOMAIN st

\* NodeStorage.prototype.addNode: this.storage[node.id] = node
addNode(st, node) == [x \in DOMAIN st \cup {node.id} |-> IF x = node.id THEN node ELSE st[x]]

\* CrNode.prototype.addField
CrNodeAddField(node, field) == [node EXCEPT !.fields = Append(@, field)]

\* CrNode.prototype.addRelation
CrNodeAddRelation(node, include) == [node EXCEPT !.relations = Append(@, include)]

-----------------------------------------------------------------------------
(* lib/parser.js: the data objects *)

\* new InfoBlock(type, options)
InfoBlock(type, name) == [type |-> type, options |-> [name |-> name]]

\* new Include(name, info)
Include(name, info) == [name |-> name, info |-> info]

\* new Field(name, options)
Field(name, iterable) == [name |-> name, options |-> [iterable |-> iterable]]

-----------------------------------------------------------------------------
(* lib/conductor.js: the conductor's state during one callback.  A callback *)
(* works on a record m of the fields it may change and the action that runs *)
(* it writes the record back.                                               *)

Machine ==
    [storage |-> storage, parserPromises |-> parserPromises,
     parserPromisesTs |-> parserPromisesTs, waits |-> waits, io |-> io,
     crashed |-> crashed, settled |-> settled, parserEvents |-> parserEvents]

\* an fs request in flight
Req(op, tier, path, ix, top) ==
    [op |-> op, tier |-> tier, path |-> path, ix |-> ix, top |-> top]

\* an uncaught exception ends the callback that raised it
Throw(m) == [m EXCEPT !.crashed = TRUE]

\* Conductor.getFilePathFromName
getFilePathFromName(id) ==
    CASE StartsWith(id, "molecules-") ->
            IF id \in DOMAIN molecules THEN molecules[id] ELSE Null
      [] StartsWith(id, "organisms-") ->
            IF id \in DOMAIN organisms THEN organisms[id] ELSE Null
      [] StartsWith(id, "atoms-") ->
            IF id \in DOMAIN atoms THEN atoms[id] ELSE Null
      [] OTHER -> Null

\* Q.all over the first n parser promises: rejected with the first rejection,
\* fulfilled once all are fulfilled
QAll(pp, n) ==
    IF \E i \in 1..n : pp[i].state = "rejected"
    THEN [state |-> "rejected",
          err |-> pp[CHOOSE i \in 1..n : /\ pp[i].state = "rejected"
                                         /\ \A j \in 1..(i - 1) : pp[j].state # "rejected"].id]
    ELSE IF \A i \in 1..n : pp[i].state = "fulfilled"
         THEN [state |-> "fulfilled", err |-> Empty]
         ELSE [state |-> "pending", err |-> Empty]

\* Date.now() alone: calls within one millisecond get the same value
NewTsSameMs(m) == 1

\* Date.now() + "" + Math.random() * 10000: a value no earlier call produced
NewTs(m) == Len(m.waits) + 1

\* a waitForFinish that does not record its token in parserPromisesTs
waitForFinishNoRecord(m) ==
    LET lTs == NewTs(m)
        n   == Len(m.parserPromises)
        all == QAll(m.parserPromises, n)
    IN  [m EXCEPT !.waits = Append(@, [n |-> n, lTs |-> lTs, state |-> all.state,
                                       err |-> all.err, done |-> FALSE])]

\* Conductor.waitForFinish
waitForFinish(m) ==
    LET lTs == NewTs(m)
        n   == Len(m.parserPromises)
        all == QAll(m.parserPromises, n)
    IN  [m EXCEPT !.parserPromisesTs = lTs,
                  !.waits = Append(@, [n |-> n, lTs |-> lTs, state |-> all.state,
                                       err |-> all.err, done |-> FALSE])]

\* a parser whose 'end' event nobody listens to: the deferred stays pending
ResolveDropped(m, ix) == m

\* deferred.resolve() of parser promise ix, and what Q.all makes of it
Resolve(m, ix) ==
    LET pp == [m.parserPromises EXCEPT ![ix].state = "fulfilled"]
    IN  [m EXCEPT !.parserPromises = pp,
                  !.settled = Append(@, ix),
                  !.waits = [k \in DOMAIN m.waits |->
                      IF m.waits[k].state = "pending"
                      THEN [m.waits[k] EXCEPT !.state = QAll(pp, m.waits[k].n).state]
                      ELSE m.waits[k]]]

\* deferred.reject(new Error('Parser ' + id + ' failed.')) of parser promise ix
Reject(m, ix) ==
    LET pp == [m.parserPromises EXCEPT ![ix].state = "rejected"]
    IN  [m EXCEPT !.parserPromises = pp,
                  !.settled = Append(@, ix),
                  !.waits = [k \in DOMAIN m.waits |->
                      IF m.waits[k].state = "pending" /\ m.waits[k].n >= ix
                      THEN [m.waits[k] EXCEPT !.state = "rejected", !.err = pp[ix].id]
                      ELSE m.waits[k]]]

\* Parser.prototype.parse, up to the point where the read is in flight:
\* fs.readFile(null, ..) throws
parse(m, ix, file) ==
    IF file = Null
    THEN Throw(m)
    ELSE [m EXCEPT !.io = @ \cup {Req("readFile", "", file, ix, FALSE)}]

\* a startParser that starts the parser without registering its node
startParserUnregistered(m, id, file) ==
    LET m1 == [m EXCEPT !.parserPromises = Append(@, [id |-> id, file |-> file,
                                                                   state |-> "pending"]),
                        !.parserEvents = Append(@, <<>>)]
    IN  parse(m1, Len(m1.parserPromises), file)

\* Conductor.startParser
startParser(m, id, file) ==
    LET m1 == [m EXCEPT !.parserPromises = Append(@, [id |-> id, file |-> file,
                                                                   state |-> "pending"]),
                        !.parserEvents = Append(@, <<>>),
                        !.storage = addNode(@, CrNode(id))]
    IN  parse(m1, Len(m1.parserPromises), file)

\* an addField that refuses a field whose name the node already holds
addFieldStrict(m, id, field) ==
    IF ~hasNode(m.storage, id)
    THEN Throw(m)
    ELSE IF \E k \in DOMAIN m.storage[id].fields : m.storage[id].fields[k].name = field.name
    THEN Throw(m)
    ELSE [m EXCEPT !.storage[id] = CrNodeAddField(@, field)]

\* an addField that creates the node it does not find
addFieldCreating(m, id, field) ==
    LET st == IF hasNode(m.storage, id) THEN m.storage ELSE addNode(m.storage, CrNode(id))
    IN  [m EXCEPT !.storage = [st EXCEPT ![id] = CrNodeAddField(@, field)]]

\* the strict CrNode.prototype.addField: this.fields.hasOwnProperty(field.name)
hasField(node, name) == \E k \in DOMAIN node.fields : node.fields[k].name = name

\* NodeStorage.prototype.addField; under the strict policy node.addField
\* throws when the node holds a field of that name
addField(m, id, field) ==
    IF ~hasNode(m.storage, id)
    THEN Throw(m)
    ELSE IF policy = "strict" /\ hasField(m.storage[id], field.name)
    THEN Throw(m)
    ELSE [m EXCEPT !.storage[id] = CrNodeAddField(@, field)]

\* NodeStorage.prototype.addRelation
addRelation(m, sourceId, relationInclude) ==
    IF ~hasNode(m.storage, sourceId)
    THEN Throw(m)
    ELSE [m EXCEPT !.storage[sourceId] = CrNodeAddRelation(@, relationInclude)]

\* an include handler that starts the parser and does not call waitForFinish
onIncludeNoWait(m, id, include) ==
    LET m1 == addRelation(m, id, include)
    IN  IF m1.crashed \/ hasNode(m1.storage, include.name)
        THEN m1
        ELSE startParser(m1, include.name, getFilePathFromName(include.name))

\* an include handler without the hasNode test
onIncludeNoDedup(m, id, include) ==
    LET m1 == addRelation(m, id, include)
    IN  IF m1.crashed
        THEN m1
        ELSE LET m2 == startParser(m1, include.name, getFilePathFromName(include.name))
             IN  IF m2.crashed THEN m2 ELSE waitForFinish(m2)

\* an include handler that adds the relation inside the hasNode test
onIncludeRelationOnce(m, id, include) ==
    IF hasNode(m.storage, include.name)
    THEN m
    ELSE LET m1 == addRelation(m, id, include)
             m2 == startParser(m1, include.name, getFilePathFromName(include.name))
         IN  IF m1.crashed THEN m1 ELSE IF m2.crashed THEN m2 ELSE waitForFinish(m2)

\* an include handler that starts a parser only for a name it can map
onIncludeMappedOnly(m, id, include) ==
    LET m1 == addRelation(m, id, include)
    IN  IF m1.crashed \/ hasNode(m1.storage, include.name)
                      \/ getFilePathFromName(include.name) = Null
        THEN m1
        ELSE waitForFinish(startParser(m1, include.name,
                                       getFilePathFromName(include.name)))

\* startParser: parser.on('include', ..)
onInclude(m, id, include) ==
    LET m1 == addRelation(m, id, include)
    IN  IF m1.crashed \/ hasNode(m1.storage, include.name)
        THEN m1
        ELSE LET m2 == startParser(m1, include.name, getFilePathFromName(include.name))
             IN  IF m2.crashed THEN m2 ELSE waitForFinish(m2)

\* a field handler that gives up once a parser has failed
onFieldUnlessFailed(m, id, field) ==
    IF \E i \in DOMAIN m.parserPromises : m.parserPromises[i].state = "rejected"
    THEN m
    ELSE addField(m, id, field)

\* startParser: parser.on('field', ..)
onField(m, id, field) == addField(m, id, field)

\* $this.emit(ev, ..) of the parser of promise ix, as its listeners see it
emit(m, ix, ev, name) ==
    [m EXCEPT !.parserEvents[ix] = Append(@, [ev |-> ev, name |-> name])]

\* lastInfo = null
NoInfo == InfoBlock("null", Empty)

\* Parser.readCrComment
readCrComment(value) ==
    IF StartsWith(value, "cr:import")
    THEN InfoBlock("import", <<[value[1] EXCEPT !.pre = ""]>> \o Tail(value))
    ELSE NoInfo

\* a comment case that keeps the info block it already holds
afterCommentFirst(lastInfo, infoBlock) ==
    IF lastInfo # NoInfo THEN lastInfo ELSE infoBlock

\* a comment case without the test: a comment that is no annotation
\* takes the pending one away
afterCommentAlways(lastInfo, infoBlock) == infoBlock

\* case '!': if(infoBlock) { lastInfo = infoBlock; }
afterComment(lastInfo, infoBlock) ==
    IF infoBlock # NoInfo THEN infoBlock ELSE lastInfo

\* case '>': the info block the include carries, with the basic fallback
includeInfo(lastInfo, name) ==
    IF lastInfo = NoInfo THEN InfoBlock("import", name) ELSE lastInfo

\* an include case without lastInfo = null
afterIncludeKept(lastInfo) == lastInfo

\* case '>': lastInfo = null
afterInclude(lastInfo) == NoInfo

\* a loop case without lastInfo = null
afterFieldKept(lastInfo) == lastInfo

\* case '#': lastInfo = null
afterField(lastInfo) == NoInfo

\* Parser.prototype.parse, the walk through the tokens from token i on, for
\* the parser of promise ix and node id, and the 'end' event after it.  The
\* state m0 and the info block info0 the walk has arrived with are values:
\* they are computed once, before token i is looked at.
RECURSIVE Walk(_, _, _, _, _, _)
Walk(m0, ix, id, tokens, i, info0) ==
    LET At(m, lastInfo) ==
          IF m.crashed THEN m
          ELSE IF i > Len(tokens) THEN Resolve(emit(m, ix, "end", Empty), ix)
          ELSE LET b == tokens[i] IN
            CASE b.t = "!" ->
                   LET infoBlock == readCrComment(b.v)
                   IN  Walk(m, ix, id, tokens, i + 1, afterComment(lastInfo, infoBlock))
              [] b.t = ">" ->
                   LET info == includeInfo(lastInfo, b.v)
                   IN  Walk(onInclude(emit(m, ix, "include", b.v), id, Include(b.v, info)),
                            ix, id, tokens, i + 1, afterInclude(lastInfo))
              [] b.t = "#" ->
                   Walk(onField(emit(m, ix, "field", b.v), id, Field(b.v, TRUE)),
                        ix, id, tokens, i + 1, afterField(lastInfo))
              [] OTHER -> Walk(m, ix, id, tokens, i + 1, lastInfo)
    IN  CHOOSE r \in {At(m, lastInfo) : m \in {m0}, lastInfo \in {info0}} : TRUE

\* Mustache.parse(content.toString()) returns the tokens; it throws on a tag
\* or section that is not closed
Lexes(content) == \A k \in DOMAIN content : content[k] # Unclosed

\* a callback that goes on to emit 'end' after it has emitted 'error'
parseCallbackAlwaysEnd(m, ix, id, err, content) ==
    IF err
    THEN emit(Reject(emit(m, ix, "error", Empty), ix), ix, "end", Empty)
    ELSE IF ~Lexes(content)
    THEN Throw(m)
    ELSE Walk(m, ix, id, content, 1, NoInfo)

\* Parser.prototype.parse: the callback of fs.readFile, with the listeners
\* startParser has registered
parseCallback(m, ix, id, err, content) ==
    IF err
    THEN Reject(emit(m, ix, "error", Empty), ix)
    ELSE IF ~Lexes(content)
    THEN Throw(m)
    ELSE Walk(m, ix, id, content, 1, NoInfo)

-----------------------------------------------------------------------------
(* Events of the conductor *)

Err(msg, id) == [msg |-> msg, id |-> id]
Event(ev, err) == [ev |-> ev, err |-> err]

\* $this.emit('end')
EmitEnd(log) == Append(log, Event("end", Err("", Empty)))

\* $this.emit('error', err)
EmitError(log, err) == Append(log, Event("error", err))

-----------------------------------------------------------------------------
(* The run *)

Init ==
    /\ scn \in Scenarios
    /\ started = FALSE
    /\ atoms = <<>>
    /\ molecules = <<>>
    /\ organisms = <<>>
    /\ storage = <<>>
    /\ parserPromises = <<>>
    /\ parserPromisesTs = 0
    /\ waits = <<>>
    /\ inits = [t \in Tiers |-> "pending"]
    /\ startFired = FALSE
    /\ io = {}
    /\ emitted = <<>>
    /\ crashed = FALSE
    /\ readErrs = 0
    /\ scanErrs = 0
    /\ settled = <<>>
    /\ parserEvents = <<>>
    /\ policy = "lenient"

\* what a callback leaves of the conductor
Commit(m) ==
    /\ storage' = m.storage
    /\ parserPromises' = m.parserPromises
    /\ parserPromisesTs' = m.parserPromisesTs
    /\ waits' = m.waits
    /\ io' = m.io
    /\ crashed' = m.crashed
    /\ settled' = m.settled
    /\ parserEvents' = m.parserEvents

\* the process is alive
Running == started /\ ~crashed

\* Q.all(inits) is settled and the reaction to it has not run yet
StartDue ==
    /\ ~startFired
    /\ \/ \E t \in Tiers : inits[t] = "rejected"
       \/ \A t \in Tiers : inits[t] = "resolved"

\* a wait's promise is settled and the reaction to it has not run yet
WaitDue(k) == waits[k].state # "pending" /\ ~waits[k].done

\* promise reactions run on process.nextTick, ahead of the next fs callback
TickQueueEmpty == ~StartDue /\ \A k \in DOMAIN waits : ~WaitDue(k)

\* the file system fails the call: because it chooses to, or because the
\* path is not there
Fails(fail, count, max, present) ==
    /\ fail => present /\ count < max

\* Conductor.prototype.start, up to the three scans being in flight
Start ==
    /\ ~started
    /\ started' = TRUE
    /\ io' = {Req("readdir", t, TierDir(t), 0, TRUE) : t \in Tiers}
    /\ UNCHANGED <<scn, policy, atoms, molecules, organisms, storage, parserPromises,
                   parserPromisesTs, waits, inits, startFired, emitted, crashed,
                   readErrs, scanErrs, settled, parserEvents>>

\* Conductor.recursiveBuildStructureMapping: the callback of fs.readdir.
\* qList holds the deferreds, not their promises, so Q.all(qList) is
\* fulfilled at once and the scan's promise with it.
ReaddirDone(r) ==
    /\ Running /\ TickQueueEmpty
    /\ r \in io /\ r.op = "readdir"
    /\ \E fail \in BOOLEAN :
         LET present == r.path \in DOMAIN world.dirs
             err     == fail \/ ~present
             files   == world.dirs[r.path]
         IN  /\ Fails(fail, scanErrs, MaxScanErrs, present)
             /\ scanErrs' = IF fail THEN scanErrs + 1 ELSE scanErrs
             /\ inits' = IF r.top
                         THEN [inits EXCEPT ![r.tier] = IF err THEN "rejected" ELSE "resolved"]
                         ELSE inits
             /\ io' = IF err
                      THEN io \ {r}
                      ELSE (io \ {r}) \cup
                           {Req("stat", r.tier, Join(r.path, files[k]), 0, FALSE) :
                              k \in {j \in DOMAIN files : files[j].pre # "."}}
    /\ UNCHANGED <<scn, policy, started, atoms, molecules, organisms, storage, parserPromises,
                   parserPromisesTs, waits, startFired, emitted, crashed, readErrs,
                   settled, parserEvents>>

\* Conductor.getNameFromFilePath: /([0-9]+)-(.*?)\.mustache/ on the file name
getNameFromFilePath(structureType, filename) ==
    IF filename.num /\ filename.end
    THEN <<Seg(structureType \o "-", FALSE, filename.stem, FALSE)>>
    ELSE Null

\* $this[structureType][idName] = newPath
SetMapping(map, idName, newPath) ==
    [x \in DOMAIN map \cup {idName} |-> IF x = idName THEN newPath ELSE map[x]]

\* Conductor.recursiveBuildStructureMapping: the callback of fs.stat.  On an
\* error stats is undefined and stats.isFile() throws.
StatDone(r) ==
    /\ Running /\ TickQueueEmpty
    /\ r \in io /\ r.op = "stat"
    /\ \E fail \in BOOLEAN :
         LET isFile      == r.path \in DOMAIN world.files
             isDirectory == r.path \in DOMAIN world.dirs
             err         == fail \/ ~(isFile \/ isDirectory)
             filename    == r.path[Len(r.path)]
             idName      == getNameFromFilePath(r.tier, filename)
             write       == ~err /\ isFile /\ filename.end /\ idName # Null
             map(tier, old) == IF write /\ r.tier = tier
                               THEN SetMapping(old, idName, r.path) ELSE old
         IN  /\ Fails(fail, scanErrs, MaxScanErrs, isFile \/ isDirectory)
             /\ scanErrs' = IF fail THEN scanErrs + 1 ELSE scanErrs
             /\ crashed' = err
             /\ atoms' = map("atoms", atoms)
             /\ molecules' = map("molecules", molecules)
             /\ organisms' = map("organisms", organisms)
             /\ io' = IF ~err /\ ~isFile /\ isDirectory
                      THEN (io \ {r}) \cup {Req("readdir", r.tier, r.path, 0, FALSE)}
                      ELSE io \ {r}
    /\ UNCHANGED <<scn, policy, started, storage, parserPromises, parserPromisesTs, waits,
                   inits, startFired, emitted, readErrs, settled, parserEvents>>

\* a start that prefers the start file when both options are given
HasStartDirUnlessFile == Len(world.startDir) > 0 /\ Len(world.startFile) = 0

\* $this.options.startDir && $this.options.startDir.length > 0
HasStartDir == Len(world.startDir) > 0

\* a start that takes the start file without looking at the option
HasStartFileUnchecked == TRUE

\* $this.options.startFile && $this.options.startFile.length > 0
HasStartFile == Len(world.startFile) > 0

\* Conductor.prototype.start: the reactions to Q.allSettled(Q.all(inits))
StartReaction ==
    /\ Running /\ StartDue
    /\ startFired' = TRUE
    /\ IF \E t \in Tiers : inits[t] = "rejected"
       THEN /\ emitted' = EmitError(emitted, Err("scan", Empty))
            /\ UNCHANGED <<storage, parserPromises, parserPromisesTs, waits, io, crashed,
                           settled, parserEvents>>
       ELSE IF HasStartDir
       THEN /\ io' = io \cup {Req("readdirStart", "", world.startDir, 0, FALSE)}
            /\ UNCHANGED <<storage, parserPromises, parserPromisesTs, waits, emitted, crashed,
                           settled, parserEvents>>
       ELSE IF HasStartFile
       THEN LET m == startParser(Machine, world.startFile, world.startFile)
            IN  /\ Commit(IF m.crashed THEN m ELSE waitForFinish(m))
                /\ UNCHANGED emitted
       ELSE /\ emitted' = EmitError(emitted, Err("Neither startFile nor startDir given.", Empty))
            /\ UNCHANGED <<storage, parserPromises, parserPromisesTs, waits, io, crashed,
                           settled, parserEvents>>
    /\ UNCHANGED <<scn, policy, started, atoms, molecules, organisms, inits, readErrs, scanErrs>>

\* a forEach that starts a parser for every entry, whatever its ending
RECURSIVE startEachAnyFile(_, _, _, _)
startEachAnyFile(m, startDir, files, i) ==
    IF m.crashed \/ i > Len(files) THEN m
    ELSE startEachAnyFile(startParser(m, <<files[i]>>, Join(startDir, files[i])),
                          startDir, files, i + 1)

\* Conductor.prototype.start: files.forEach(..) from entry i on
RECURSIVE startEach(_, _, _, _)
startEach(m, startDir, files, i) ==
    IF m.crashed \/ i > Len(files) THEN m
    ELSE IF files[i].end
         THEN startEach(startParser(m, <<files[i]>>, Join(startDir, files[i])),
                        startDir, files, i + 1)
         ELSE startEach(m, startDir, files, i + 1)

\* Conductor.prototype.start: the callback of fs.readdir(startDir)
StartDirDone(r) ==
    /\ Running /\ TickQueueEmpty
    /\ r \in io /\ r.op = "readdirStart"
    /\ \E fail \in BOOLEAN :
         LET present == r.path \in DOMAIN world.dirs
             m0      == [Machine EXCEPT !.io = @ \ {r}]
         IN  /\ Fails(fail, scanErrs, MaxScanErrs, present)
             /\ scanErrs' = IF fail THEN scanErrs + 1 ELSE scanErrs
             /\ IF fail \/ ~present
                THEN /\ emitted' = EmitError(emitted, Err("readdir", r.path))
                     /\ Commit(m0)
                ELSE LET m == startEach(m0, r.path, world.dirs[r.path], 1)
                     IN  /\ Commit(IF m.crashed THEN m ELSE waitForFinish(m))
                         /\ UNCHANGED emitted
    /\ UNCHANGED <<scn, policy, started, atoms, molecules, organisms, inits, startFired, readErrs>>

\* the file system completes a readFile and the parser's callback runs
ReadFileDone(r) ==
    /\ Running /\ TickQueueEmpty
    /\ r \in io /\ r.op = "readFile"
    /\ \E fail \in BOOLEAN :
         LET present == r.path \in DOMAIN world.files
             m0      == [Machine EXCEPT !.io = @ \ {r}]
         IN  /\ Fails(fail, readErrs, MaxReadErrs, present)
             /\ readErrs' = IF fail THEN readErrs + 1 ELSE readErrs
             /\ Commit(parseCallback(m0, r.ix, parserPromises[r.ix].id, fail \/ ~present,
                                      IF present THEN world.files[r.path] ELSE <<>>))
    /\ UNCHANGED <<scn, policy, started, atoms, molecules, organisms, inits, startFired,
                   emitted, scanErrs>>

\* Conductor.waitForFinish: the reactions to Q.allSettled(parserPromiseList)
WaitDone(k) ==
    /\ Running
    /\ k \in DOMAIN waits /\ WaitDue(k)
    /\ waits' = [waits EXCEPT ![k].done = TRUE]
    /\ emitted' = IF waits[k].state = "rejected"
                  THEN EmitError(emitted, Err("Parser failed.", waits[k].err))
                  ELSE IF parserPromisesTs = waits[k].lTs
                       THEN EmitEnd(emitted)
                       ELSE emitted
    /\ UNCHANGED <<scn, policy, started, atoms, molecules, organisms, storage, parserPromises,
                   parserPromisesTs, inits, startFired, io, crashed, readErrs, scanErrs,
                   settled, parserEvents>>

Next ==
    \/ Start
    \/ StartReaction
    \/ \E r \in io : ReaddirDone(r)
    \/ \E r \in io : StatDone(r)
    \/ \E r \in io : StartDirDone(r)
    \/ \E r \in io : ReadFileDone(r)
    \/ \E k \in DOMAIN waits : WaitDone(k)

Spec == Init /\ [][Next]_vars

\* the event loop runs every callback that is due
FairSpec == Spec /\ WF_vars(Next)

\* the conductor built on the builder whose CrNode.addField is strict
StrictInit ==
    /\ scn \in Scenarios
    /\ started = FALSE
    /\ atoms = <<>>
    /\ molecules = <<>>
    /\ organisms = <<>>
    /\ storage = <<>>
    /\ parserPromises = <<>>
    /\ parserPromisesTs = 0
    /\ waits = <<>>
    /\ inits = [t \in Tiers |-> "pending"]
    /\ startFired = FALSE
    /\ io = {}
    /\ emitted = <<>>
    /\ crashed = FALSE
    /\ readErrs = 0
    /\ scanErrs = 0
    /\ settled = <<>>
    /\ parserEvents = <<>>
    /\ policy = "strict"

StrictSpec == StrictInit /\ [][Next]_vars

-----------------------------------------------------------------------------
(* The node store on its own: a caller that makes any calls of addNode,     *)
(* addField and addRelation, in any order.  crashed tells whether the last  *)
(* call threw.                                                              *)

StoreIds      == {TierId("atoms", "a"), TierId("molecules", "m")}
StoreFields   == {Field(Str("title"), TRUE), Field(Str("links"), TRUE)}
StoreIncludes == {Include(id, InfoBlock("import", id)) : id \in StoreIds}

StoreInit ==
    /\ scn = "Store"
    /\ started = FALSE
    /\ atoms = <<>>
    /\ molecules = <<>>
    /\ organisms = <<>>
    /\ storage = <<>>
    /\ parserPromises = <<>>
    /\ parserPromisesTs = 0
    /\ waits = <<>>
    /\ inits = [t \in Tiers |-> "pending"]
    /\ startFired = FALSE
    /\ io = {}
    /\ emitted = <<>>
    /\ crashed = FALSE
    /\ readErrs = 0
    /\ scanErrs = 0
    /\ settled = <<>>
    /\ parserEvents = <<>>
    /\ policy = "lenient"

\* the state before a call: no exception is in the air
Called == [Machine EXCEPT !.crashed = FALSE]

\* handler.addNode(new CrNode(id))
CallAddNode(id) ==
    /\ Commit([Called EXCEPT !.storage = addNode(@, CrNode(id))])
    /\ UNCHANGED <<scn, policy, started, atoms, molecules, organisms, inits, startFired,
                   emitted, readErrs, scanErrs>>

\* handler.addField(id, field)
CallAddField(id, field) ==
    /\ hasNode(storage, id) => Len(storage[id].fields) < MaxStoreLen
    /\ Commit(addField(Called, id, field))
    /\ UNCHANGED <<scn, policy, started, atoms, molecules, organisms, inits, startFired,
                   emitted, readErrs, scanErrs>>

\* handler.addRelation(sourceId, relationInclude)
CallAddRelation(sourceId, relationInclude) ==
    /\ hasNode(storage, sourceId) => Len(storage[sourceId].relations) < MaxStoreLen
    /\ Commit(addRelation(Called, sourceId, relationInclude))
    /\ UNCHANGED <<scn, policy, started, atoms, molecules, organisms, inits, startFired,
                   emitted, readErrs, scanErrs>>

StoreNext ==
    \/ \E id \in StoreIds : CallAddNode(id)
    \/ \E id \in StoreIds, field \in StoreFields : CallAddField(id, field)
    \/ \E id \in StoreIds, include \in StoreIncludes : CallAddRelation(id, include)

StoreSpec == StoreInit /\ [][StoreNext]_vars

-----------------------------------------------------------------------------
(* What a run shows *)

Ends   == {i \in DOMAIN emitted : emitted[i].ev = "end"}
Errors == {i \in DOMAIN emitted : emitted[i].ev = "error"}

EndEmitted == Ends # {}

Promises == DOMAIN parserPromises

Pending(i)   == parserPromises[i].state = "pending"
Fulfilled(i) == parserPromises[i].state = "fulfilled"
Rejected(i)  == parserPromises[i].state = "rejected"

\* the read of parser i is in flight
Reading(i) == \E r \in io : r.op = "readFile" /\ r.ix = i

\* the place of parser i among the settled ones
Pos(i) == CHOOSE k \in DOMAIN settled : settled[k] = i

\* nothing is in flight and no reaction is due
Quiescent == Running /\ startFired /\ io = {} /\ TickQueueEmpty

\* the top-level tokens of the template parser i reads
Tokens(i) == world.files[parserPromises[i].file]

Pick(tokens, t) == SelectSeq(tokens, LAMBDA b : b.t = t)

\* the targets of a template's includes and the names of its loops, in
\* source order
IncludeTargets(tokens) == [k \in DOMAIN Pick(tokens, ">") |-> Pick(tokens, ">")[k].v]
LoopNames(tokens)      == [k \in DOMAIN Pick(tokens, "#") |-> Pick(tokens, "#")[k].v]

RelationTargets(node) == [k \in DOMAIN node.relations |-> node.relations[k].name]
RelationNames(node)   == [k \in DOMAIN node.relations |-> node.relations[k].info.options.name]
FieldNames(node)      == [k \in DOMAIN node.fields |-> node.fields[k].name]

Range(f) == {f[k] : k \in DOMAIN f}

\* the parser promises started for node id
ParsersOf(id) == {i \in Promises : parserPromises[i].id = id}

-----------------------------------------------------------------------------
(* C1: in any run the conductor emits 'end' at most once, whatever the      *)
(* include graph, the number of waitForFinish calls and the order in which  *)
(* the reads complete.                                                      *)
C1_EndAtMostOnce == Cardinality(Ends) <= 1

\* 'end' after four calls of waitForFinish
C1_Witness == Cardinality(Ends) = 1 /\ Len(waits) = 4

(* C2: when 'end' has been emitted every parser started in the run has      *)
(* delivered its terminal event, no read is in flight, and no parser is     *)
(* started afterwards.                                                      *)
C2_EndAfterAllParsers ==
    /\ [](EndEmitted => \A i \in Promises : ~Pending(i) /\ ~Reading(i))
    /\ [][EndEmitted => parserPromises' = parserPromises]_vars

\* 'end' at the end of the chain page -> o -> m -> a, four parses deep
C2_Witness ==
    /\ scn = "Chain" /\ EndEmitted
    /\ Len(parserPromises) = 4 /\ settled = <<1, 2, 3, 4>>

(* C3: when the scan succeeds, a start point is configured and every read   *)
(* of a started parser completes successfully, the conductor eventually    *)
(* emits 'end'.                                                             *)
ScanFailed   == scanErrs > 0 \/ \E t \in Tiers : inits[t] = "rejected"
NoStartPoint == Len(world.startDir) = 0 /\ Len(world.startFile) = 0
ReadFailed   == crashed \/ \E i \in Promises : Rejected(i)

C4_StaleWaitSilent ==
    [][\A k \in DOMAIN waits :
          (WaitDue(k) /\ waits'[k].done /\ waits[k].lTs # parserPromisesTs)
              => emitted' = emitted]_vars

(* C5: at most one parser is ever started for a node id.                    *)
C5_OneParserPerId == \A id \in DOMAIN storage : Cardinality(ParsersOf(id)) <= 1

\* the diamond: b and c have both included d, and d has one parser
C5_Witness ==
    /\ scn = "Diamond"
    /\ \A i \in 1..4 : i \in Promises
    /\ Fulfilled(2) /\ Fulfilled(3)
    /\ Cardinality(ParsersOf(TierId("atoms", "d"))) = 1

(* C6: every include event appends one relation to its source node, in     *)
(* source order, whether or not the target is already known.                *)
C6_RelationPerInclude ==
    \A i \in Promises :
        Fulfilled(i) =>
            RelationTargets(storage[parserPromises[i].id]) = IncludeTargets(Tokens(i))

\* page includes atoms-h twice: one node for it, two relations to it
C6_Witness ==
    /\ scn = "Twice" /\ 1 \in Promises /\ Fulfilled(1)
    /\ DOMAIN storage = {Page, TierId("atoms", "h")}
    /\ RelationTargets(storage[Page]) = <<TierId("atoms", "h"), TierId("atoms", "h")>>
    /\ RelationNames(storage[Page]) = <<TierId("atoms", "h"), Str("footerHeader")>>

(* C7: when one included template cannot be read the run still emits 'end' *)
(* and no 'error', and the relation to the failing target stays.            *)
Included(i) == \E id \in DOMAIN storage :
                  parserPromises[i].id \in Range(RelationTargets(storage[id]))

C7_PartialFailureContained ==
    (/\ Quiescent /\ ~ScanFailed
     /\ \E i \in Promises : /\ Rejected(i) /\ Included(i)
                            /\ \A j \in Promises \ {i} : Fulfilled(j))
        => EndEmitted /\ Errors = {}

(* C8: after one parser has failed, a parser that ends later has all its    *)
(* fields and relations in the store, and every target it includes is a     *)
(* node with a parser.                                                      *)
C8_SiblingsUnaffected ==
    \A i \in Promises : \A j \in Promises :
        (Rejected(j) /\ Fulfilled(i) /\ Pos(j) < Pos(i)) =>
            LET node == storage[parserPromises[i].id]
            IN  /\ FieldNames(node) = LoopNames(Tokens(i))
                /\ RelationTargets(node) = IncludeTargets(Tokens(i))
                /\ \A t \in Range(IncludeTargets(Tokens(i))) :
                       hasNode(storage, t) /\ ParsersOf(t) # {}

\* the diamond: b failed, then c was parsed and started the parser of d
C8_Witness ==
    /\ scn = "Diamond"
    /\ \A i \in 1..4 : i \in Promises
    /\ Rejected(2) /\ Fulfilled(3) /\ Pos(2) < Pos(3)
    /\ parserPromises[4].id = TierId("atoms", "d")

(* C9: when the run is over every parse failure has been reported: for each *)
(* failed parser some event names its node id.                              *)
C9_FailuresReported ==
    Quiescent =>
        \A i \in Promises :
            Rejected(i) => \E e \in Errors : emitted[e].err.id = parserPromises[i].id

(* C10: an include whose target has no path mapping becomes a failure of    *)
(* that node only: the enclosing parser finishes its walk and delivers its  *)
(* terminal event, and so does the parser of the target.                    *)
ScanInFlight == \E r \in io : r.op \in {"readdir", "stat"}

C10_UnmappedIncludeContained ==
    (startFired /\ ~ScanInFlight) => \A i \in Promises : ~Reading(i) => ~Pending(i)

(* C11: no parser is started and no include is resolved to a path while a   *)
(* readdir or stat of the tier scan is still in flight; equivalently, no    *)
(* step writes the atoms, molecules or organisms mapping once the first     *)
(* parser has been started.                                                 *)
C11_ScanBeforeParsers ==
    /\ [](Len(parserPromises) > 0 => ~ScanInFlight)
    /\ [][Len(parserPromises) > 0 => UNCHANGED <<atoms, molecules, organisms>>]_vars

(* C12: when a readdir or stat of the tier scan has failed, at the tier     *)
(* root or below it, no parser is started, 'end' is not emitted, and once   *)
(* the run has stopped the conductor has emitted 'error'.                   *)

\* the failed readdir/stat calls of the tier scan: all but those of
\* fs.readdir(startDir)
TierScanErrs ==
    scanErrs - Cardinality({i \in Errors : emitted[i].err.msg = "readdir"})

\* the process has died or has nothing left to do
Stopped == crashed \/ (started /\ io = {} /\ TickQueueEmpty)

C12_ScanFailureAborts ==
    TierScanErrs > 0 => /\ parserPromises = <<>>
                        /\ ~EndEmitted
                        /\ (Stopped => Errors # {})

(* C13: when neither startFile nor startDir is configured no node is        *)
(* created, no parser is started and 'end' is not emitted; the reaction to  *)
(* the scan emits 'error', and after a scan that succeeded it is the one    *)
(* event of the run, the configuration error.                               *)
ConfigurationError == Event("error", Err("Neither startFile nor startDir given.", Empty))

C13_NoStartPointFails ==
    NoStartPoint =>
        /\ storage = <<>> /\ parserPromises = <<>> /\ ~EndEmitted
        /\ startFired => Errors # {}
        /\ (startFired /\ \A t \in Tiers : inits[t] = "resolved")
              => emitted = <<ConfigurationError>>

\* the configuration error after a scan that has run to its end
C13_Witness ==
    /\ NoStartPoint /\ startFired /\ io = {} /\ ~crashed
    /\ atoms # <<>>
    /\ emitted = <<ConfigurationError>>

(* C14: when both startDir and startFile are configured the parsers started *)
(* as start points are exactly those of the files of startDir whose name    *)
(* holds the file ending, in the order of the listing; the startFile gets   *)
(* a node only as the target of an include.                                 *)
BothStarts == Len(world.startDir) > 0 /\ Len(world.startFile) > 0

\* the entries of startDir that hold the file ending
StartDirTemplates == SelectSeq(world.dirs[world.startDir], LAMBDA f : f.end)

\* the ids of the parsers the first waitForFinish waits for
StartPoints == [k \in 1..waits[1].n |-> parserPromises[k].id]

C14_StartDirPreferred ==
    BothStarts =>
        /\ Len(waits) = 0 => parserPromises = <<>>
        /\ Len(waits) > 0 =>
              StartPoints = [k \in DOMAIN StartDirTemplates |-> <<StartDirTemplates[k]>>]
        /\ world.startFile \in DOMAIN storage =>
              \E id \in DOMAIN storage : world.startFile \in Range(RelationTargets(storage[id]))

\* the run over the start directory has ended: p1, p2 and the atom they include
C14_Witness ==
    /\ BothStarts /\ EndEmitted
    /\ Len(waits) > 0 /\ Len(StartPoints) = 2
    /\ Len(parserPromises) = 3
    /\ world.startFile \notin DOMAIN storage

(* C15: NodeStorage.addNode for an id that is already stored leaves the     *)
(* store as it is: the node stored under the id keeps its fields and its    *)
(* relations.                                                               *)
C15_AddNodeKeepsNode ==
    \A id \in DOMAIN storage : addNode(storage, CrNode(id)) = storage

(* C16: in a run no step removes a node or replaces one, and every step     *)
(* leaves each node's field list and relation list a prefix of what they    *)
(* are after it; so they extend what they were in every earlier state.      *)
IsPrefix(a, b) == Len(a) <= Len(b) /\ SubSeq(b, 1, Len(a)) = a

C16_AppendOnly ==
    [][\A id \in DOMAIN storage :
          /\ id \in DOMAIN storage'
          /\ storage'[id].id = storage[id].id
          /\ IsPrefix(storage[id].fields, storage'[id].fields)
          /\ IsPrefix(storage[id].relations, storage'[id].relations)]_vars

\* the diamond at its end: four nodes, the page with two relations, the
\* nodes below it with a field each
C16_Witness ==
    /\ scn = "Diamond" /\ EndEmitted
    /\ Cardinality(DOMAIN storage) = 4
    /\ Len(storage[Page].relations) = 2
    /\ \A id \in DOMAIN storage \ {Page} : Len(storage[id].fields) = 1

(* C17: NodeStorage.addField and NodeStorage.addRelation with an id that is *)
(* not in the store throw and leave the store, its nodes and their fields   *)
(* and relations, as they were.                                             *)
C17_UnknownIdRejected ==
    \A id \in StoreIds \ DOMAIN storage :
        /\ \A field \in StoreFields : addField(Called, id, field) = Throw(Called)
        /\ \A include \in StoreIncludes : addRelation(Called, id, include) = Throw(Called)

\* a call for an id that is not stored has thrown, beside a node that holds
\* a field and a relation
C17_Witness ==
    /\ crashed
    /\ \E id \in StoreIds : id \notin DOMAIN storage
    /\ \E id \in DOMAIN storage :
          Len(storage[id].fields) = 1 /\ Len(storage[id].relations) = 1

(* C18: once the callback of a parser's read has run, the events the parser *)
(* has emitted are either the one 'error', or the include and field events  *)
(* of the template's tokens in source order followed by the one 'end'.      *)

\* the event a token makes the parser emit
EventOf(b) == [ev |-> IF b.t = ">" THEN "include" ELSE "field", name |-> b.v]

\* the include and field events of a template, in source order
TokenEvents(tokens) ==
    LET bs == SelectSeq(tokens, LAMBDA b : b.t \in {">", "#"})
    IN  [k \in DOMAIN bs |-> EventOf(bs[k])]

ErrorEvent == [ev |-> "error", name |-> Empty]
EndEvent   == [ev |-> "end", name |-> Empty]

\* the callback of the read of parser i has run
ReadDone(i) == parserPromises[i].file # Null /\ ~Reading(i)

C18_OrderedThenTerminal ==
    (startFired /\ ~ScanInFlight) =>
        \A i \in Promises :
            ReadDone(i) => \/ parserEvents[i] = <<ErrorEvent>>
                           \/ parserEvents[i] = Append(TokenEvents(Tokens(i)), EndEvent)

(* C19: a parser whose read has failed has emitted the 'error' event and    *)
(* nothing else: no field, no include and no 'end'.                         *)
C19_ReadErrorOnly ==
    \A i \in Promises :
        (Rejected(i) \/ ErrorEvent \in Range(parserEvents[i]))
            => parserEvents[i] = <<ErrorEvent>>

\* the read of a template that holds an include and a loop has failed, after
\* another parser has delivered its events
C19_Witness ==
    \E i, j \in Promises :
        /\ Rejected(i) /\ parserEvents[i] = <<ErrorEvent>>
        /\ Len(TokenEvents(Tokens(i))) = 2
        /\ Fulfilled(j) /\ Len(parserEvents[j]) = 3

(* C20: after the read of a template that Mustache cannot lex the parser's  *)
(* promise is rejected and no exception is left uncaught.                   *)
C20_LexErrorIsParseFailure ==
    \A i \in Promises :
        (ReadDone(i) /\ ~Lexes(Tokens(i))) => Rejected(i) /\ ~crashed

-----------------------------------------------------------------------------
(* Annotations, read off the token list of a template *)

\* a comment Parser.readCrComment makes an info block of
Recognized(b) == b.t = "!" /\ StartsWith(b.v, "cr:import")

\* the name such a comment gives: the word after "cr:import "
NameOf(b) == Str(b.v[1].stem)

\* the positions of the tokens of type t, in source order
Positions(tokens, t) ==
    SelectSeq([k \in DOMAIN tokens |-> k], LAMBDA k : tokens[k].t = t)

\* the recognized comments in front of token k with neither an include nor
\* a loop between them and k
PendingAt(tokens, k) ==
    {j \in 1..(k - 1) : /\ Recognized(tokens[j])
                        /\ \A x \in (j + 1)..(k - 1) : tokens[x].t \notin {">", "#"}}

Max(S) == CHOOSE x \in S : \A y \in S : y <= x

\* the node of parser i
NodeOf(i) == storage[parserPromises[i].id]

(* C21: a recognized annotation comment is attached to the next include:    *)
(* of several such comments in front of an include the latest one is, and  *)
(* an include with no such comment since the include before it carries the *)
(* default annotation.                                                      *)
C21_AnnotationToNextInclude ==
    \A i \in Promises :
        Fulfilled(i) =>
            LET tokens == Tokens(i)
                pos    == Positions(tokens, ">")
                rel    == NodeOf(i).relations
            IN  /\ Len(rel) = Len(pos)
                /\ \A n \in DOMAIN pos :
                      /\ PendingAt(tokens, pos[n]) # {}
                            => rel[n].info = InfoBlock("import",
                                                       NameOf(tokens[Max(PendingAt(tokens, pos[n]))]))
                      /\ (n > 1 /\ \A x \in pos[n - 1]..pos[n] : ~Recognized(tokens[x]))
                            => rel[n].info = InfoBlock("import", tokens[pos[n]].v)

\* the annotated page has been parsed: header, default, footer, default
\* after the loop, and heading, the comment in front of the variable
C21_Witness ==
    /\ scn = "Annotated" /\ Len(parserPromises) > 0 /\ Fulfilled(1)
    /\ RelationNames(storage[Page]) =
         <<Str("header"), TierId("atoms", "a"), Str("footer"), TierId("atoms", "a"),
           Str("heading")>>

(* C22: a loop that follows a recognized annotation comment yields a field  *)
(* that carries the annotation: its options hold the annotation's name      *)
(* beside iterable.                                                         *)
C22_AnnotationToField ==
    \A i \in Promises :
        Fulfilled(i) =>
            LET tokens == Tokens(i)
                pos    == Positions(tokens, "#")
                fields == NodeOf(i).fields
            IN  \A n \in DOMAIN pos :
                    PendingAt(tokens, pos[n]) # {}
                        => /\ n \in DOMAIN fields
                           /\ "name" \in DOMAIN fields[n].options
                           /\ fields[n].options.name =
                                  NameOf(tokens[Max(PendingAt(tokens, pos[n]))])

(* C23: every top-level variable token of a parsed template is a field of   *)
(* the template's node, with iterable = false.                              *)
C23_VariableIsField ==
    \A i \in Promises :
        Fulfilled(i) =>
            \A k \in DOMAIN Tokens(i) :
                Tokens(i)[k].t = "name"
                    => Field(Tokens(i)[k].v, FALSE) \in Range(NodeOf(i).fields)

(* C24: for every node-meta comment of a parsed template the parser has     *)
(* emitted a nodeInfo event, and the template's node holds the information. *)
NodeMeta(b) == b.t = "!" /\ StartsWith(b.v, "cr:node")

C24_NodeInfoAttached ==
    \A i \in Promises :
        Fulfilled(i) =>
            \A k \in DOMAIN Tokens(i) :
                NodeMeta(Tokens(i)[k])
                    => /\ [ev |-> "nodeInfo", name |-> Tokens(i)[k].v] \in Range(parserEvents[i])
                       /\ NodeOf(i).info # NoInfo

(* C25: the graph a run ends with does not depend on the order in which the *)
(* calls to the file system complete: each node holds the loops and the     *)
(* includes, in source order, of every file an order of completion can map  *)
(* its id to.                                                               *)

\* the templates of the tiers whose name gives the id
TierFilesOf(id) ==
    {f \in DOMAIN world.files :
        \E t \in Tiers : /\ StartsWith(id, t \o "-")
                         /\ f[1] = TierDir(t)[1]
                         /\ getNameFromFilePath(t, f[Len(f)]) = id}

\* the files the parser of promise i may have been given
CandidatesOf(i) ==
    IF \E t \in Tiers : StartsWith(parserPromises[i].id, t \o "-")
    THEN TierFilesOf(parserPromises[i].id)
    ELSE {parserPromises[i].file}

C25_SameGraphAnyOrder ==
    EndEmitted =>
        \A i \in Promises : \A f \in CandidatesOf(i) :
            /\ FieldNames(NodeOf(i)) = LoopNames(world.files[f])
            /\ RelationTargets(NodeOf(i)) = IncludeTargets(world.files[f])

(* C26: between two callbacks of a running conductor the wait that holds    *)
(* the current token covers every parser promise started so far, and a     *)
(* callback that starts parsers records a new token and sets up a new wait *)
(* before it returns.                                                       *)
C26_CurrentWaitCoversAll ==
    /\ []((~crashed /\ Len(parserPromises) > 0)
            => \E k \in DOMAIN waits : /\ waits[k].lTs = parserPromisesTs
                                       /\ waits[k].n = Len(parserPromises))
    /\ [][(~crashed' /\ Len(parserPromises') > Len(parserPromises))
            => /\ parserPromisesTs' # parserPromisesTs
               /\ Len(waits') > Len(waits)
               /\ \A k \in DOMAIN waits : waits[k].lTs # parserPromisesTs']_vars

\* four parsers deep into the chain, the fourth wait holds the token
C26_Witness ==
    /\ scn = "Chain" /\ ~crashed
    /\ Len(parserPromises) = 4 /\ Len(waits) = 4
    /\ waits[4].lTs = parserPromisesTs /\ waits[4].n = 4
    /\ \E i \in Promises : Pending(i)

(* C27: no two parsers are started for one id and every parser but the      *)
(* start points is started for the target of a stored relation, so a run    *)
(* starts at most one parser per id reachable from the start points; and a  *)
(* run whose includes form a cycle comes to its end: 'end', or the failure  *)
(* of a read.                                                               *)

\* the stored relations hold a template that includes itself, or two that
\* include each other
CycleSeen ==
    \E a, b \in DOMAIN storage :
        /\ b \in Range(RelationTargets(storage[a]))
        /\ a \in Range(RelationTargets(storage[b]))

\* the parsers started by Conductor.prototype.start
IsStartPoint(i) == Len(waits) > 0 /\ i <= waits[1].n

C27_CyclesTerminate ==
    /\ [](\A i, j \in Promises :
            /\ parserPromises[i].id = parserPromises[j].id => i = j
            /\ IsStartPoint(i) \/ \E a \in DOMAIN storage :
                                     parserPromises[i].id \in Range(RelationTargets(storage[a])))
    /\ (CycleSeen ~> (EndEmitted \/ ReadFailed))

\* the cycle page -> o -> m -> o, m -> m has ended with three parsers
C27_Witness ==
    /\ scn = "Cycle" /\ CycleSeen /\ EndEmitted
    /\ Len(parserPromises) = 3
    /\ RelationTargets(storage[TierId("molecules", "m")]) =
         <<TierId("organisms", "o"), TierId("molecules", "m")>>

(* C28: an include with no recognized annotation comment since the include  *)
(* or loop before it carries the synthesized annotation: type 'import',     *)
(* name the raw target id.  So nothing is pending after an include.         *)
C28_DefaultAnnotation ==
    \A i \in Promises :
        Fulfilled(i) =>
            LET tokens == Tokens(i)
                pos    == Positions(tokens, ">")
                rel    == NodeOf(i).relations
            IN  \A n \in DOMAIN pos :
                    PendingAt(tokens, pos[n]) = {}
                        => /\ n \in DOMAIN rel
                           /\ rel[n].name = tokens[pos[n]].v
                           /\ rel[n].info.type = "import"
                           /\ rel[n].info.options.name = tokens[pos[n]].v

\* the include of atoms-a right after the one named header has the default
C28_Witness ==
    /\ scn = "Annotated" /\ Len(parserPromises) > 0 /\ Fulfilled(1)
    /\ storage[Page].relations[1].info.options.name = Str("header")
    /\ storage[Page].relations[2] =
         Include(TierId("atoms", "a"), InfoBlock("import", TierId("atoms", "a")))

(* C29: a loop takes the pending annotation away: an include that follows   *)
(* an annotation comment and then a loop, with no annotation comment after  *)
(* the loop, carries the default name, its target id.                       *)
C29_LoopConsumesAnnotation ==
    \A i \in Promises :
        Fulfilled(i) =>
            LET tokens == Tokens(i)
                pos    == Positions(tokens, ">")
            IN  \A n \in DOMAIN pos :
                    (\E j, l \in 1..pos[n] :
                        /\ j < l /\ l < pos[n]
                        /\ Recognized(tokens[j]) /\ tokens[l].t = "#"
                        /\ \A x \in j..pos[n] : x # pos[n] => tokens[x].t # ">"
                        /\ \A x \in l..pos[n] : ~Recognized(tokens[x]))
                    => RelationNames(NodeOf(i))[n] = tokens[pos[n]].v

\* the loop items has taken the name rows: the include after it is atoms-a
C29_Witness ==
    /\ scn = "Annotated" /\ Len(parserPromises) > 0 /\ Fulfilled(1)
    /\ FieldNames(storage[Page]) = <<Str("items")>>
    /\ RelationNames(storage[Page])[4] = TierId("atoms", "a")

-----------------------------------------------------------------------------
\* parser i has emitted two field events of the same name
RepeatedField(i) ==
    \E j, k \in DOMAIN parserEvents[i] :
        /\ j < k
        /\ parserEvents[i][j].ev = "field"
        /\ parserEvents[i][k] = parserEvents[i][j]

(* C31: under the strict field policy a template that produces two field    *)
(* events of the same name leaves the node's fields unchanged by the second *)
(* one, and the violation is reported: once the run has stopped the         *)
(* conductor has emitted 'error' and the parse is not left outstanding.     *)
C31_StrictViolationReported ==
    \A i \in Promises :
        (policy = "strict" /\ RepeatedField(i)) =>
            /\ \A j, k \in DOMAIN storage[parserPromises[i].id].fields :
                   j # k => FieldNames(storage[parserPromises[i].id])[j]
                                # FieldNames(storage[parserPromises[i].id])[k]
            /\ (Stopped => (Errors # {} /\ ~Pending(i)))

-----------------------------------------------------------------------------
\* the ids reachable from the ids S through the stored relations
RECURSIVE Closure(_)
Closure(S) ==
    LET T == S \cup UNION {Range(RelationTargets(storage[id])) :
                              id \in S \cap DOMAIN storage}
    IN  IF T = S THEN S ELSE Closure(T)

\* the ids Conductor.prototype.start has started parsers for
StartIds == {parserPromises[i].id : i \in {j \in Promises : IsStartPoint(j)}}

(* C32: relation closure. The target of every relation stored on any node   *)
(* is itself a node of the store; once 'end' has been emitted the nodes of  *)
(* the store are exactly the start points and the ids reachable from them   *)
(* through relations.                                                       *)
C32_RelationClosure ==
    /\ \A id \in DOMAIN storage :
          Range(RelationTargets(storage[id])) \subseteq DOMAIN storage
    /\ EndEmitted => DOMAIN storage = Closure(StartIds)

\* a run has ended with a store of three nodes that the start point reaches
\* through relations
C32_Witness ==
    /\ EndEmitted
    /\ Cardinality(StartIds) = 1
    /\ Cardinality(DOMAIN storage) >= 3
    /\ \E id \in DOMAIN storage \ StartIds :
          Range(RelationTargets(storage[id])) # {}

-----------------------------------------------------------------------------
(* C33: 'end' and 'error' are mutually exclusive outcomes of a run. When    *)
(* 'end' has been emitted every parser started in the run has finished      *)
(* successfully and no 'error' has been emitted, before or after it.        *)
C33_EndExcludesError ==
    EndEmitted => /\ Errors = {}
                  /\ \A i \in Promises : Fulfilled(i)

\* a run of several parsers and several waits has ended and come to rest
C33_Witness ==
    /\ EndEmitted
    /\ Quiescent
    /\ Len(parserPromises) >= 3
    /\ Len(waits) >= 3

-----------------------------------------------------------------------------
(* C34: a single failed parse makes the conductor emit 'error' at most      *)
(* once, however many waitForFinish waits hold that parser's promise.       *)
C34_OneErrorPerFailure ==
    Cardinality({i \in Promises : Rejected(i)}) = 1 => Cardinality(Errors) <= 1

-----------------------------------------------------------------------------
(* C35: once the conductor has emitted 'end' the node store is not modified *)
(* again: no node is added and no field or relation is appended.            *)
C35_StoreFrozenAfterEnd == [][EndEmitted => storage' = storage]_vars

\* 'end' has been emitted over a store with relations and fields while
\* callbacks of the run are still due
C35_Witness ==
    /\ EndEmitted
    /\ ~Quiescent
    /\ \E id \in DOMAIN storage : storage[id].relations # <<>>
    /\ \E id \in DOMAIN storage : storage[id].fields # <<>>

-----------------------------------------------------------------------------
\* the names of parser i's events of kind ev, in the order of emission
EventNames(i, ev) ==
    LET es == SelectSeq(parserEvents[i], LAMBDA e : e.ev = ev)
    IN  [k \in DOMAIN es |-> es[k].name]

(* C36: during a run NodeStorage.addField and NodeStorage.addRelation are   *)
(* only called for an id that is in the store: the node of every started    *)
(* parser is registered, and every include and field event a parser has     *)
(* emitted is stored on its node, none has been refused as not found.       *)
C36_HandlersFindNode ==
    \A i \in Promises :
        /\ parserPromises[i].id \in DOMAIN storage
        /\ RelationTargets(storage[parserPromises[i].id]) = EventNames(i, "include")
        /\ FieldNames(storage[parserPromises[i].id]) = EventNames(i, "field")

\* a parser started by an include has had a field event stored on its node,
\* and the parser that included it a relation
C36_Witness ==
    \E i, j \in Promises :
        /\ i < j
        /\ parserPromises[j].id \in Range(EventNames(i, "include"))
        /\ EventNames(j, "field") # <<>>
        /\ FieldNames(storage[parserPromises[j].id]) = EventNames(j, "field")

-----------------------------------------------------------------------------
(* C37: in every reachable state of a run the number of parser promises     *)
(* recorded as outstanding work equals the number of nodes in the store,    *)
(* and every step that records promises adds as many new node ids.          *)
C37_PromisePerNode ==
    /\ [](Len(parserPromises) = Cardinality(DOMAIN storage))
    /\ [][Len(parserPromises') - Len(parserPromises)
             = Cardinality(DOMAIN storage' \ DOMAIN storage)]_vars

\* a template has included one id twice, and the store holds one node for
\* each promise
C37_Witness ==
    /\ Len(parserPromises) >= 2
    /\ Len(parserPromises) = Cardinality(DOMAIN storage)
    /\ \E id \in DOMAIN storage : \E j, k \in DOMAIN storage[id].relations :
          j < k /\ RelationTargets(storage[id])[j] = RelationTargets(storage[id])[k]

-----------------------------------------------------------------------------
\* startDir is configured and holds no entry with the file ending
NoTemplateInStartDir ==
    /\ Len(world.startDir) > 0
    /\ world.startDir \in DOMAIN world.dirs
    /\ StartDirTemplates = <<>>

-----------------------------------------------------------------------------
\* a token the walk does nothing with: text, a variable, a comment that is
\* no annotation
Passed(b) == b.t \notin {">", "#"} /\ ~Recognized(b)

=============================================================================
